---------------------------- MODULE Spec2Model ----------------------------
(***************************************************************************)
(* Model of the CNC components of moonraker-for-cnc:                       *)
(*   - M2RestartHandler and M30Handler, the two program-completion        *)
(*     listeners that issue SDCARD_RESET_FILE (m2_restart_handler.py,      *)
(*     m30_handler.py);                                                    *)
(*   - CNCMCodesHandler, the modal-state, spindle and subroutine          *)
(*     endpoints (cnc_extended_api.py);                                    *)
(*   - ToolDatabaseAPI, the tool registry and tool monitor endpoints       *)
(*     (tool_database.py).                                                 *)
(* The downstream interpreter (Klippy) and the event source are the        *)
(* environment: commands succeed or raise, status updates arrive.          *)
(***************************************************************************)
EXTENDS Naturals, FiniteSets, Sequences, TLC

(***************************************************************************)
(* Bounds of the model.                                                    *)
(***************************************************************************)
\* how many times "server:klippy_ready" fires
MaxReady == 1
\* how many program runs (generations) start
MaxRuns == 1
\* how many status updates arrive besides the start/end transitions
MaxRedeliver == 1
\* how many listener tasks are unfinished at once
MaxPending == 2
\* how far the interpreter's stack may grow past the documented 10 states
MaxOverflow == 1
\* how many modal POST requests a counted sequence has
MaxPosts == 5
\* how many select and info requests are between their command and their
\* status query at once
MaxInFlight == 2
\* how many tools the listing of the statistics endpoint has
MaxListing == 3
\* how many times "server:klippy_ready" fires again after the first times
MaxReadyAgain == 1

(***************************************************************************)
(* Program constants.                                                      *)
(***************************************************************************)
\* for _ in range(10):  # Max 10 nested states
ModalBound == 10

Handlers == {"m2", "m30"}

\* the command vocabulary of the modal-state endpoint
ModalCommands == {"M70", "M71", "M72", "M73"}
Gens == 0..MaxRuns

\* print_stats.state values reported by the interpreter
PrintStates == {"standby", "printing", "complete", "cancelled", "error"}
\* shapes of a status update: without 'print_stats', with a 'print_stats'
\* that carries no 'state', or with 'print_stats' = {'state': s}
UpdateKinds == {"no_print_stats", "no_state"} \cup PrintStates

VARIABLES
    readyCount,     \* number of "server:klippy_ready" events fired
    listeners,      \* per handler, registrations on "server:status_update"
    klippy_apis,    \* CNCMCodesHandler.klippy_apis is set
    printState,     \* the interpreter's print_stats.state
    gen,            \* generation: number of program runs started
    redelivered,    \* status updates delivered besides the transitions
    newTasks,       \* listener tasks created and not yet run
    awaiting,       \* listener tasks suspended in await run_gcode(...)
    pending,        \* number of listener tasks created and not yet finished
    resetIssued,    \* per handler and generation: SDCARD_RESET_FILE sends
    resetFailed,    \* per generation: a reset's run_gcode has raised
    lookupFailed,   \* per generation: a reset's component lookup has raised
    completions,    \* per generation: 'complete' updates delivered
    otherSent,      \* commands sent by a listener for a non-'complete' update
    escaped,        \* exceptions a listener let escape to the event source
    ranOther,       \* a listener has handled a non-'complete' update
    depth,          \* the interpreter's modal-state stack depth
    delPc,          \* DELETE request: "idle" or "loop"
    delI,           \* DELETE request: iterations of the loop completed
    delSent,        \* DELETE request: M71 commands sent
    delAlone,       \* DELETE request in its loop: no other request has
                    \* changed the stack since it began
    delStart,       \* DELETE request in its loop, while alone: the stack
                    \* depth when it began
    lastResp,       \* the last response of a CNCMCodesHandler endpoint
    snaps,          \* the interpreter's saved snapshots, oldest first
    restored,       \* the snapshot the interpreter restored last (0: none)
    posts,          \* modal POST requests handled
    sentCount,      \* per command, modal POST sends
    okCount,        \* per command, modal POST sends the interpreter accepted
    klippyUp,       \* the interpreter is connected
    printer,        \* ToolDatabaseAPI.printer is set
    tools,          \* the interpreter's tool database, by identifier
    current_tool,   \* the interpreter's current tool (0: none)
    monitoring,     \* the interpreter's wear monitor is active
    selWait,        \* select requests between SELECT_TOOL and the query
    infoWait,       \* info requests between TOOL_INFO and the query
    toolResp,       \* the last response of a ToolDatabaseAPI endpoint or
                    \* of a manual re-trigger endpoint
    statList,       \* the 'tools' list of the interpreter's tool_database
                    \* status object as the statistics endpoint gets it
    statsResp,      \* the last response of the statistics endpoint
    autoSave,       \* the interpreter's automatic-save flag
    autoArg         \* the boolean of the last auto-save request

resetVars == <<listeners, printState, gen, redelivered, newTasks, awaiting,
               pending, resetIssued, resetFailed, lookupFailed, completions,
               otherSent, escaped, ranOther>>
histVars == <<snaps, restored, posts, sentCount, okCount, autoSave, autoArg>>
modalVars == <<depth, delPc, delI, delSent, delStart, delAlone, lastResp,
               histVars>>
readyVars == <<readyCount>>
statsVars == <<statList, statsResp>>
restVars == <<klippyUp, printer, tools, current_tool, monitoring, selWait,
              infoWait, toolResp, statsVars>>
vars == <<readyCount, listeners, klippy_apis, printState, gen,
          redelivered, newTasks, awaiting, pending, resetIssued, resetFailed,
          lookupFailed, completions, otherSent, escaped, ranOther,
          depth, delPc, delI, delSent, delStart, delAlone, lastResp,
          snaps, restored, posts, sentCount, okCount,
          klippyUp, printer, tools, current_tool, monitoring, selWait,
          infoWait, toolResp, statList, statsResp, autoSave, autoArg>>

(***************************************************************************)
(* Tool records.                                                           *)
(***************************************************************************)
\* identifiers the registry holds (operator-assigned positive integers)
ToolIds == {1, 2}
\* identifiers a request may carry
IdInputs == {0, 1, 2}

\* the fields an update request may carry, of those _handle_update_tool
\* accepts: two floats
Fields == {"diameter", "length"}
\* the fields for which an update request may carry a value that does not
\* convert to a float
Malformed == {"length"}
\* the tool the requests are about where one tool is enough
OneTool == {1}

\* values an add request carries (diameter and length in 1/10 mm)
AddTypes == {"drill"}
\* a 'type' that is no tool category
UnknownTypes == {"gadget"}
AddDiameters == {30}
AddLengths == {500}

\* no tool: None
NoTool == [id |-> 0, type |-> "none", diameter |-> 0, length |-> 0]

(***************************************************************************)
(* The downstream interpreter as the tool endpoints see it: the tool       *)
(* database, the current tool and the monitor live there; a command is     *)
(* accepted or raises, a status query returns the status or raises.        *)
(***************************************************************************)
NoParams == [f \in {} |-> 0]

NoCmd == [name |-> "none", id |-> 0, params |-> NoParams]

\* a call reaches the interpreter and the interpreter does not fail it
Reaches(willing) == klippyUp /\ willing

\* the registry holds positive, unique identifiers; update, remove and
\* select need the tool to exist
InterpToolAccepts(cmd, willing) ==
    CASE cmd.name = "ADD_TOOL" ->
             Reaches(willing) /\ cmd.id \in ToolIds /\ tools[cmd.id] = NoTool
      [] cmd.name \in {"UPDATE_TOOL", "REMOVE_TOOL", "SELECT_TOOL"} ->
             Reaches(willing) /\ cmd.id \in ToolIds /\ tools[cmd.id] # NoTool
      [] OTHER -> Reaches(willing)

\* the named snapshot an import reads: a record for tool 1
Snapshot == [i \in {1} |-> [id |-> i, type |-> "endmill", diameter |-> 40,
                            length |-> 700]]

\* a record with the fields of params replaced
Patched(rec, params) ==
    [f \in DOMAIN rec |-> IF f \in DOMAIN params THEN params[f] ELSE rec[f]]

InterpTools(cmd, accepted) ==
    CASE accepted /\ cmd.name = "ADD_TOOL" ->
             [tools EXCEPT ![cmd.id] =
                 Patched([NoTool EXCEPT !.id = cmd.id], cmd.params)]
      [] accepted /\ cmd.name = "UPDATE_TOOL" ->
             [tools EXCEPT ![cmd.id] = Patched(@, cmd.params)]
      [] accepted /\ cmd.name = "REMOVE_TOOL" ->
             [tools EXCEPT ![cmd.id] = NoTool]
      [] accepted /\ cmd.name = "IMPORT_TOOLS" ->
             [i \in ToolIds |->
                 IF /\ i \in DOMAIN Snapshot
                    /\ (tools[i] = NoTool \/ cmd.params.overwrite = 1)
                 THEN Snapshot[i] ELSE tools[i]]
      [] OTHER -> tools

\* selection changes "current" without removing the record; removing the
\* current tool leaves no tool selected
InterpCurrent(cmd, accepted) ==
    CASE accepted /\ cmd.name = "SELECT_TOOL" -> cmd.id
      [] accepted /\ cmd.name = "REMOVE_TOOL" /\ cmd.id = current_tool -> 0
      [] OTHER -> current_tool

InterpMonitoring(cmd, accepted) ==
    CASE accepted /\ cmd.name = "START_TOOL_MONITORING" -> TRUE
      [] accepted /\ cmd.name = "STOP_TOOL_MONITORING" -> FALSE
      [] OTHER -> monitoring

\* the tool_database status object: 'tools', in order of identifier
RECURSIVE ListingFrom(_)
ListingFrom(i) ==
    IF i \notin ToolIds THEN << >>
    ELSE IF tools[i] = NoTool THEN ListingFrom(i + 1)
    ELSE <<tools[i]>> \o ListingFrom(i + 1)

StatusTools == ListingFrom(1)

\* the tool_database status object: 'current_tool' (NoTool: None)
StatusCurrent == IF current_tool = 0 THEN NoTool ELSE tools[current_tool]

(***************************************************************************)
(* ToolDatabaseAPI                                                         *)
(***************************************************************************)
\* the 'id' argument: omitted, or an integer
IdArgs == {[given |-> FALSE, id |-> 0]}
          \cup {[given |-> TRUE, id |-> i] : i \in IdInputs}

\* op: the endpoint; given, id: the request's 'id'; req: the tool fields the
\* request carries, bad: those whose value does not convert; outcome:
\* "success" (the success dict), "http404", "raised" (an exception of the
\* downstream call left the handler), "ok" (a manual endpoint's result);
\* failed: a downstream call of the request raised; tool: the record in the
\* response; cmd: the command sent; calls: run_gcode calls made
\* listing: the 'tools' of a list response; was: the monitor was active
\* when a start or stop request came; active: 'monitoring_active' of a
\* monitor status response
ToolResp(op, arg, outcome, failed, tool, cmd, calls) ==
    [op |-> op, given |-> arg.given, id |-> arg.id, req |-> NoParams,
     bad |-> {}, outcome |-> outcome, failed |-> failed, tool |-> tool,
     cmd |-> cmd, calls |-> calls, message |-> "none", listing |-> << >>,
     was |-> FALSE, active |-> FALSE]

NoToolResp == ToolResp("none", [given |-> FALSE, id |-> 0], "none", FALSE,
                       NoTool, NoCmd, 0)

Given(i) == [given |-> TRUE, id |-> i]

NoArg == [given |-> FALSE, id |-> 0]

(***************************************************************************)
(* The listing the statistics endpoint works on.                           *)
(***************************************************************************)
\* an entry of the listing: 'id' and 'total_runtime'; timed: the entry has
\* the key 'total_runtime'
StatTools == {[id |-> 1, timed |-> TRUE, total_runtime |-> 5],
              [id |-> 2, timed |-> TRUE, total_runtime |-> 5],
              [id |-> 3, timed |-> FALSE, total_runtime |-> 0],
              [id |-> 4, timed |-> TRUE, total_runtime |-> 9]}

\* no entry: None
NoStat == [id |-> 0, timed |-> FALSE, total_runtime |-> 0]

\* listings: the tools in any order, each at most once
Listings ==
    {l \in UNION {[1..n -> StatTools] : n \in 0..MaxListing} :
        \A i, j \in DOMAIN l : l[i] = l[j] => i = j}

\* outcome: "success" or "raised"; seen: the listing of the status query;
\* most_used: 'most_used_tool'
NoStatsResp == [outcome |-> "none", seen |-> << >>, most_used |-> NoStat]

\* req: the request type; action: the request's action or direction as
\* the handler read it; result/message: the returned dict; pre/post: the
\* interpreter's stack depth before and after the handler's last step;
\* sent: run_gcode calls the request made; command: the script of the last
\* one; enable: the spindle request's 'enable'
NoResp == [req |-> "none", action |-> "none", result |-> "none",
           message |-> "none", pre |-> 0, post |-> 0, sent |-> 0,
           command |-> "None", enable |-> FALSE]

Init ==
    /\ readyCount = 0
    /\ listeners = [h \in Handlers |-> 0]
    /\ klippy_apis = FALSE
    /\ printState = "standby"
    /\ gen = 0
    /\ redelivered = 0
    /\ newTasks = [h \in Handlers |-> [k \in UpdateKinds |-> [g \in Gens |-> 0]]]
    /\ awaiting = [h \in Handlers |-> [g \in Gens |-> 0]]
    /\ pending = 0
    /\ resetIssued = [h \in Handlers |-> [g \in Gens |-> 0]]
    /\ resetFailed = [g \in Gens |-> FALSE]
    /\ lookupFailed = [g \in Gens |-> FALSE]
    /\ completions = [g \in Gens |-> 0]
    /\ otherSent = 0
    /\ escaped = 0
    /\ ranOther = FALSE
    /\ depth = 0
    /\ delPc = "idle"
    /\ delI = 0
    /\ delSent = 0
    /\ delStart = 0
    /\ delAlone = TRUE
    /\ lastResp = NoResp
    /\ snaps = << >>
    /\ restored = 0
    /\ posts = 0
    /\ sentCount = [c \in ModalCommands |-> 0]
    /\ okCount = [c \in ModalCommands |-> 0]
    /\ klippyUp = FALSE
    /\ printer = FALSE
    /\ tools = [i \in ToolIds |-> NoTool]
    /\ current_tool = 0
    /\ monitoring = FALSE
    /\ selWait = {}
    /\ infoWait = {}
    /\ toolResp = NoToolResp
    /\ statList = << >>
    /\ statsResp = NoStatsResp
    /\ autoSave = FALSE
    /\ autoArg = FALSE

(***************************************************************************)
(* "server:klippy_ready": every component registered a handler for it in   *)
(* its __init__.  No handler awaits anything, and the event source         *)
(* schedules them back to back, so the event is one step.                  *)
(***************************************************************************)
\* M2RestartHandler._handle_klippy_ready / M30Handler._handle_klippy_ready:
\* lookup_component('klippy_connection'), then register the status listener
\* once more; a failed lookup is logged and nothing is registered.
HandleKlippyReady(n, lookupOk) == IF lookupOk THEN n + 1 ELSE n

M2_handle_klippy_ready(lookupOk) ==
    HandleKlippyReady(listeners["m2"], lookupOk)

M30_handle_klippy_ready(lookupOk) ==
    HandleKlippyReady(listeners["m30"], lookupOk)

\* CNCMCodesHandler._handle_klippy_ready:
\* self.klippy_apis = self.server.lookup_component('klippy_apis')
CNC_handle_klippy_ready == TRUE

\* the event as the two completion listeners see it
ReadyEvent ==
    /\ readyCount' = readyCount + 1
    /\ \E m2ok, m30ok \in BOOLEAN :
          listeners' = [m2 |-> M2_handle_klippy_ready(m2ok),
                        m30 |-> M30_handle_klippy_ready(m30ok)]
    /\ klippy_apis' = CNC_handle_klippy_ready
    /\ UNCHANGED <<restVars, printState, gen, redelivered, newTasks, awaiting,
                   pending, resetIssued, resetFailed, lookupFailed, completions,
                   otherSent, escaped, ranOther, modalVars>>

KlippyReady == readyCount < MaxReady /\ ReadyEvent

\* the interpreter restarts and "server:klippy_ready" fires again
KlippyReadyAgain ==
    /\ readyCount >= MaxReady
    /\ readyCount < MaxReady + MaxReadyAgain
    /\ ReadyEvent

(***************************************************************************)
(* The event source: "server:status_update" carries the interpreter's      *)
(* changed status objects; every registered listener gets its own task.    *)
(***************************************************************************)
\* only a 'complete' update is attributed to a generation
TaskGen(k, g) == IF k = "complete" THEN g ELSE 0

Deliver(k, g) ==
    /\ pending + listeners["m2"] + listeners["m30"] <= MaxPending
    /\ pending' = pending + listeners["m2"] + listeners["m30"]
    /\ newTasks' = [h \in Handlers |->
                      [newTasks[h] EXCEPT ![k][TaskGen(k, g)] = @ + listeners[h]]]
    /\ completions' = IF k = "complete"
                      THEN [completions EXCEPT ![g] = @ + 1]
                      ELSE completions

\* the "program started" signal: print_stats.state becomes 'printing'
ProgramStart ==
    /\ gen < MaxRuns
    /\ printState # "printing"
    /\ gen' = gen + 1
    /\ printState' = "printing"
    /\ Deliver("printing", gen + 1)
    /\ UNCHANGED <<restVars, readyVars, listeners, klippy_apis, redelivered, awaiting,
                   resetIssued, resetFailed, lookupFailed, otherSent,
                   escaped, ranOther, modalVars>>

\* the running program ends: print_stats.state becomes s
ProgramEnd(s) ==
    /\ printState = "printing"
    /\ printState' = s
    /\ Deliver(s, gen)
    /\ UNCHANGED <<restVars, readyVars, listeners, klippy_apis, gen, redelivered,
                   awaiting, resetIssued, resetFailed, lookupFailed,
                   otherSent, escaped, ranOther, modalVars>>

ProgramComplete == ProgramEnd("complete")

ProgramAbort == \E s \in {"cancelled", "error"} : ProgramEnd(s)

\* any other status update: other objects only, print_stats fields other
\* than 'state', or the current state delivered again
StatusUpdate ==
    /\ redelivered < MaxRedeliver
    /\ redelivered' = redelivered + 1
    /\ \E k \in {"no_print_stats", "no_state", printState} : Deliver(k, gen)
    /\ UNCHANGED <<restVars, readyVars, listeners, klippy_apis, printState, gen,
                   awaiting, resetIssued, resetFailed, lookupFailed,
                   otherSent, escaped, ranOther, modalVars>>

(***************************************************************************)
(* The completion listeners.                                               *)
(***************************************************************************)
\* a listener that resets on every end of a program, not only on 'complete'
ShouldResetOnAnyEnd(k) == k \in {"complete", "cancelled", "error"}

\* a listener that tests for the wrong state
ShouldResetWhenCancelled(k) == k = "cancelled"

\* print_stats = status_update.get('print_stats', {})
\* if print_stats.get('state') == 'complete':
ShouldReset(k) == k = "complete"

\* a handler that catches a narrower exception class than the one raised
ExceptHandlerTooNarrow == FALSE

\* except Exception as e: logging.debug(...)
ExceptHandlerCatches == TRUE

\* exceptions leaving the callback when the try body raised
Propagated(raised) == IF raised /\ ~ExceptHandlerCatches THEN 1 ELSE 0

\* _check_restart_execution / _check_m30_execution up to the await:
\* the state test, lookup_component('klippy_apis'), the call of run_gcode
CheckExecution(h, k, g, lookupOk) ==
    /\ newTasks[h][k][g] > 0
    /\ newTasks' = [newTasks EXCEPT ![h][k][g] = @ - 1]
    /\ LET sends == ShouldReset(k) /\ lookupOk
           raised == ShouldReset(k) /\ ~lookupOk
       IN /\ resetIssued' = IF sends /\ k = "complete"
                            THEN [resetIssued EXCEPT ![h][g] = @ + 1]
                            ELSE resetIssued
          /\ otherSent' = IF sends /\ k # "complete"
                          THEN otherSent + 1 ELSE otherSent
          /\ awaiting' = IF sends THEN [awaiting EXCEPT ![h][g] = @ + 1]
                         ELSE awaiting
          /\ pending' = IF sends THEN pending ELSE pending - 1
          /\ lookupFailed' = IF raised
                             THEN [lookupFailed EXCEPT ![g] = TRUE]
                             ELSE lookupFailed
          /\ escaped' = escaped + Propagated(raised)
    /\ ranOther' = (ranOther \/ k # "complete")
    /\ UNCHANGED <<restVars, readyVars, listeners, klippy_apis, printState, gen,
                   redelivered, resetFailed, completions, modalVars>>

\* the rest of the callback: run_gcode returns or raises
ResumeExecution(h, g, gcodeOk) ==
    /\ awaiting[h][g] > 0
    /\ awaiting' = [awaiting EXCEPT ![h][g] = @ - 1]
    /\ pending' = pending - 1
    /\ resetFailed' = IF gcodeOk THEN resetFailed
                      ELSE [resetFailed EXCEPT ![g] = TRUE]
    /\ escaped' = escaped + Propagated(~gcodeOk)
    /\ UNCHANGED <<restVars, readyVars, listeners, klippy_apis, printState, gen,
                   redelivered, newTasks, resetIssued, lookupFailed,
                   completions, otherSent, ranOther, modalVars>>

M2_check_restart_execution ==
    \/ \E k \in UpdateKinds, g \in Gens, ok \in BOOLEAN :
          CheckExecution("m2", k, g, ok)
    \/ \E g \in Gens, ok \in BOOLEAN : ResumeExecution("m2", g, ok)

M30_check_m30_execution ==
    \/ \E k \in UpdateKinds, g \in Gens, ok \in BOOLEAN :
          CheckExecution("m30", k, g, ok)
    \/ \E g \in Gens, ok \in BOOLEAN : ResumeExecution("m30", g, ok)

ResetNext ==
    \/ KlippyReady
    \/ ProgramStart
    \/ ProgramComplete
    \/ ProgramAbort
    \/ StatusUpdate
    \/ M2_check_restart_execution
    \/ M30_check_m30_execution

ResetSpec == Init /\ [][ResetNext]_vars

\* the event loop runs a listener task that has been created
ListenerTaskRuns(h, k, g) == \E ok \in BOOLEAN : CheckExecution(h, k, g, ok)

\* the program runs and the listeners: the status updates at which
\* print_stats.state changes
RunsNext ==
    \/ KlippyReady
    \/ ProgramStart
    \/ ProgramComplete
    \/ ProgramAbort
    \/ M2_check_restart_execution
    \/ M30_check_m30_execution

RunsSpec == Init /\ [][RunsNext]_vars

\* every listener task the event source has created is run by the event loop
RunsFairSpec ==
    RunsSpec /\ \A h \in Handlers, k \in UpdateKinds, g \in Gens :
                   WF_vars(ListenerTaskRuns(h, k, g))

\* the completion listeners with restarts of the interpreter
ReconnectNext ==
    \/ KlippyReadyAgain
    \/ ResetNext

ReconnectSpec == Init /\ [][ReconnectNext]_vars

(***************************************************************************)
(* The downstream interpreter as the modal endpoint sees it: run_gcode     *)
(* returns or raises.  `willing` is the interpreter being reachable and    *)
(* not rejecting the command for a reason of its own.                      *)
(***************************************************************************)
\* M71 and M72 pop a saved state and raise when there is none ("No more
\* states to clear"); M70 pushes one, also past the 10 states the endpoint
\* expects (MaxOverflow keeps the model finite); M73 pushes or pops nothing.
InterpAccepts(cmd, d, willing) ==
    CASE cmd \in {"M71", "M72"} -> willing /\ d > 0
      [] cmd = "M70" -> willing /\ d < ModalBound + MaxOverflow
      [] OTHER -> willing

InterpDepth(cmd, d, accepted) ==
    CASE accepted /\ cmd = "M70" -> d + 1
      [] accepted /\ cmd \in {"M71", "M72"} -> d - 1
      [] OTHER -> d

\* the saved snapshots: M70 saves the modal state as snapshot n, M72 and M71
\* remove the most recent one
InterpSnaps(cmd, s, accepted, n) ==
    CASE accepted /\ cmd = "M70" -> Append(s, n)
      [] accepted /\ cmd \in {"M71", "M72"} -> SubSeq(s, 1, Len(s) - 1)
      [] OTHER -> s

\* the snapshot the interpreter has restored last: M72 restores the most
\* recent one, M71 discards it unrestored
InterpRestored(cmd, s, accepted, r) ==
    IF accepted /\ cmd = "M72" THEN s[Len(s)] ELSE r

(***************************************************************************)
(* CNCMCodesHandler._handle_modal_state                                    *)
(***************************************************************************)
\* the 'action' argument: omitted, one of the four known, or anything else
ActionInputs == {"omitted", "save", "restore", "invalidate", "auto_save",
                 "unknown"}

\* action = web_request.get('action', 'save')
ActionOf(a) == IF a = "omitted" THEN "save" ELSE a

\* a command_map with the entries of 'restore' and 'invalidate' exchanged
CommandMapExchanged(action) ==
    CASE action = "save" -> "M70"
      [] action = "restore" -> "M71"
      [] action = "invalidate" -> "M72"
      [] action = "auto_save" -> "M73"
      [] OTHER -> "None"

\* a command_map whose 'auto_save' entry repeats the one of 'save'
CommandMapAutoSaveSaves(action) ==
    CASE action = "save" -> "M70"
      [] action = "restore" -> "M72"
      [] action = "invalidate" -> "M71"
      [] action = "auto_save" -> "M70"
      [] OTHER -> "None"

\* command_map.get(action)
CommandMap(action) ==
    CASE action = "save" -> "M70"
      [] action = "restore" -> "M72"
      [] action = "invalidate" -> "M71"
      [] action = "auto_save" -> "M73"
      [] OTHER -> "None"

NotConnected(req) ==
    [req |-> req, action |-> "none", result |-> "error",
     message |-> "Klippy not connected", pre |-> depth, post |-> depth,
     sent |-> 0, command |-> "None", enable |-> FALSE]

\* GET: query_objects({'cnc_m_codes': None})
ModalGet(willing) ==
    /\ lastResp' =
         IF ~klippy_apis THEN NotConnected("GET")
         ELSE [req |-> "GET", action |-> "none",
               result |-> IF willing THEN "success" ELSE "error",
               message |-> IF willing THEN "Modal state tracking active"
                           ELSE "str(e)",
               pre |-> depth, post |-> depth, sent |-> 0,
               command |-> "None", enable |-> FALSE]
    /\ UNCHANGED <<restVars, readyVars, klippy_apis, resetVars, depth, delPc, delI,
                   delSent, delStart, delAlone, histVars>>

\* POST: one action, one command
ModalPost(a, willing) ==
    LET action == ActionOf(a)
        command == CommandMap(action)
        accepted == InterpAccepts(command, depth, willing)
    IN /\ IF ~klippy_apis
          THEN /\ lastResp' = NotConnected("POST")
               /\ depth' = depth
          ELSE IF command = "None"
          THEN /\ lastResp' = [req |-> "POST", action |-> action,
                                result |-> "error",
                                message |-> "Invalid action",
                                pre |-> depth, post |-> depth, sent |-> 0,
                                command |-> "None", enable |-> FALSE]
               /\ depth' = depth
          ELSE /\ depth' = InterpDepth(command, depth, accepted)
               /\ lastResp' = [req |-> "POST", action |-> action,
                                result |-> IF accepted THEN "success"
                                           ELSE "error",
                                message |-> IF accepted THEN command
                                            ELSE "str(e)",
                                pre |-> depth, post |-> depth', sent |-> 1,
                                command |-> command, enable |-> FALSE]
       /\ delAlone' = (delAlone /\ (delPc = "idle" \/ depth' = depth))
       /\ delStart' = IF delAlone' THEN delStart ELSE 0
       /\ UNCHANGED <<restVars, readyVars, klippy_apis, resetVars, delPc, delI,
                      delSent>>

\* an off-by-one loop test: one iteration too many
DeleteLoopOneTooMany(i) == i <= ModalBound

\* for _ in range(10):
DeleteLoopContinues(i) == i < ModalBound

\* a loop that goes on to the next iteration when a discard raises
DeleteNeverBreaks(accepted) == FALSE

\* except: break  # No more states to clear
DeleteBreaks(accepted) == ~accepted

AllCleared(sent) ==
    [req |-> "DELETE", action |-> "none", result |-> "success",
     message |-> "All modal states cleared", pre |-> depth, post |-> depth',
     sent |-> sent, command |-> "M71", enable |-> FALSE]

\* DELETE, up to the loop
ModalDeleteStart ==
    /\ delPc = "idle"
    /\ IF ~klippy_apis
       THEN /\ lastResp' = NotConnected("DELETE")
            /\ UNCHANGED <<delPc, delI, delSent, delStart, delAlone>>
       ELSE /\ delPc' = "loop"
            /\ delI' = 0
            /\ delSent' = 0
            /\ delStart' = depth
            /\ delAlone' = TRUE
            /\ UNCHANGED lastResp
    /\ UNCHANGED <<restVars, readyVars, klippy_apis, resetVars, depth, histVars>>

\* DELETE, one iteration: await run_gcode("M71"); a raise breaks the loop
\* and the request returns
ModalDeleteStep(willing) ==
    /\ delPc = "loop"
    /\ DeleteLoopContinues(delI)
    /\ LET accepted == InterpAccepts("M71", depth, willing)
           stop == DeleteBreaks(accepted)
       IN /\ depth' = InterpDepth("M71", depth, accepted)
          /\ delSent' = delSent + 1
          /\ delI' = IF stop THEN delI ELSE delI + 1
          /\ delPc' = IF stop THEN "idle" ELSE "loop"
          /\ lastResp' = IF stop THEN AllCleared(delSent + 1) ELSE lastResp
          /\ delStart' = IF stop THEN 0 ELSE delStart
          /\ delAlone' = (stop \/ delAlone)
    /\ UNCHANGED <<restVars, readyVars, klippy_apis, resetVars, histVars>>

\* DELETE, the loop exhausted: the request returns
ModalDeleteReturn ==
    /\ delPc = "loop"
    /\ ~DeleteLoopContinues(delI)
    /\ delPc' = "idle"
    /\ depth' = depth
    /\ lastResp' = AllCleared(delSent)
    /\ delStart' = 0
    /\ delAlone' = TRUE
    /\ UNCHANGED <<restVars, readyVars, klippy_apis, resetVars, delI, delSent,
                   histVars>>

CNC_handle_modal_state ==
    \/ \E w \in BOOLEAN : ModalGet(w)
    \/ \E a \in ActionInputs, w \in BOOLEAN :
          ModalPost(a, w) /\ UNCHANGED histVars
    \/ ModalDeleteStart
    \/ \E w \in BOOLEAN : ModalDeleteStep(w)
    \/ ModalDeleteReturn

(***************************************************************************)
(* CNCMCodesHandler._handle_spindle                                        *)
(***************************************************************************)
\* the 'direction' argument: omitted, a known one in either case, or
\* anything else
DirectionInputs == {"omitted", "cw", "ccw", "CCW", "unknown"}

\* str.lower()
Lower(d) == IF d = "CCW" THEN "ccw" ELSE d

\* direction = web_request.get('direction', 'cw').lower()
DirectionOf(d) == Lower(IF d = "omitted" THEN "cw" ELSE d)

\* the 'speed' argument: speed = web_request.get_int('speed', 0)
SpeedInputs == {0, 1000}

\* a direction test whose last branch starts the spindle clockwise
DirectionCommandDefaultsCw(direction) ==
    CASE direction = "cw" -> "M3"
      [] direction = "ccw" -> "M4"
      [] OTHER -> "M3"

\* if direction == 'cw': M3 / elif direction == 'ccw': M4 / else: error
DirectionCommand(direction) ==
    CASE direction = "cw" -> "M3"
      [] direction = "ccw" -> "M4"
      [] OTHER -> "None"

\* "\n".join(commands): S<speed> when speed > 0, then M3 or M4; M5 to stop
SpindleScript(enable, direction, speed) ==
    IF ~enable THEN "M5"
    ELSE IF speed > 0
         THEN IF DirectionCommand(direction) = "M3" THEN "S M3" ELSE "S M4"
         ELSE DirectionCommand(direction)

\* GET: query_objects({'cnc_m_codes': None})
SpindleGet(willing) ==
    /\ lastResp' =
         IF ~klippy_apis THEN NotConnected("SPINDLE_GET")
         ELSE [req |-> "SPINDLE_GET", action |-> "none",
               result |-> IF willing THEN "success" ELSE "error",
               message |-> IF willing THEN "spindle status" ELSE "str(e)",
               pre |-> depth, post |-> depth, sent |-> 0,
               command |-> "None", enable |-> FALSE]
    /\ UNCHANGED <<restVars, readyVars, klippy_apis, resetVars, depth, delPc, delI,
                   delSent, delStart, delAlone, histVars>>

\* POST: the commands are joined into one script and sent in one call
SpindlePost(enable, d, speed, willing) ==
    LET direction == DirectionOf(d)
    IN /\ lastResp' =
            IF ~klippy_apis THEN NotConnected("SPINDLE_POST")
            ELSE IF enable /\ DirectionCommand(direction) = "None"
            THEN [req |-> "SPINDLE_POST", action |-> direction,
                  result |-> "error", message |-> "Invalid direction",
                  pre |-> depth, post |-> depth, sent |-> 0,
                  command |-> "None", enable |-> enable]
            ELSE [req |-> "SPINDLE_POST", action |-> direction,
                  result |-> IF willing THEN "success" ELSE "error",
                  message |-> IF willing THEN "spindle set" ELSE "str(e)",
                  pre |-> depth, post |-> depth, sent |-> 1,
                  command |-> SpindleScript(enable, direction, speed),
                  enable |-> enable]
       /\ UNCHANGED <<restVars, readyVars, klippy_apis, resetVars, depth, delPc, delI,
                      delSent, delStart, delAlone, histVars>>

CNC_handle_spindle ==
    \/ \E w \in BOOLEAN : SpindleGet(w)
    \/ \E e \in BOOLEAN, d \in DirectionInputs, w \in BOOLEAN :
          \E sp \in (IF e THEN SpeedInputs ELSE {0}) : SpindlePost(e, d, sp, w)

(***************************************************************************)
(* CNCMCodesHandler._handle_subroutine                                     *)
(***************************************************************************)
SubActionInputs == {"omitted", "call", "return", "unknown"}

\* action = web_request.get('action', 'call')
SubActionOf(a) == IF a = "omitted" THEN "call" ELSE a

\* the 'repeats' argument: repeats = web_request.get_int('repeats', 1)
RepeatInputs == {1, 2}

\* command = f"M98 P{program}"; if repeats > 1: command += f" L{repeats}"
SubCommand(action, repeats) ==
    CASE action = "call" -> IF repeats > 1 THEN "M98 P L" ELSE "M98 P"
      [] action = "return" -> "M99"
      [] OTHER -> "None"

\* POST; `programGiven`: the request carries 'program' (get_int raises
\* without it, inside the try)
Subroutine(a, programGiven, repeats, willing) ==
    LET action == SubActionOf(a)
        command == SubCommand(action, repeats)
    IN /\ lastResp' =
            IF ~klippy_apis THEN NotConnected("SUBROUTINE_POST")
            ELSE IF command = "None"
            THEN [req |-> "SUBROUTINE_POST", action |-> action,
                  result |-> "error", message |-> "Invalid action",
                  pre |-> depth, post |-> depth, sent |-> 0,
                  command |-> "None", enable |-> FALSE]
            ELSE IF action = "call" /\ ~programGiven
            THEN [req |-> "SUBROUTINE_POST", action |-> action,
                  result |-> "error", message |-> "str(e)",
                  pre |-> depth, post |-> depth, sent |-> 0,
                  command |-> "None", enable |-> FALSE]
            ELSE [req |-> "SUBROUTINE_POST", action |-> action,
                  result |-> IF willing THEN "success" ELSE "error",
                  message |-> IF willing THEN command ELSE "str(e)",
                  pre |-> depth, post |-> depth, sent |-> 1,
                  command |-> command, enable |-> FALSE]
       /\ UNCHANGED <<restVars, readyVars, klippy_apis, resetVars, depth, delPc, delI,
                      delSent, delStart, delAlone, histVars>>

CNC_handle_subroutine ==
    \E a \in SubActionInputs, w \in BOOLEAN :
       \E p \in (IF SubActionOf(a) = "call" THEN BOOLEAN ELSE {TRUE}),
          r \in (IF SubActionOf(a) = "call" THEN RepeatInputs ELSE {1}) :
          Subroutine(a, p, r, w)

\* the event as the modal endpoint sees it
CNCKlippyReady ==
    /\ readyCount < MaxReady
    /\ readyCount' = readyCount + 1
    /\ klippy_apis' = CNC_handle_klippy_ready
    /\ UNCHANGED <<restVars, resetVars, modalVars>>

ModalNext ==
    \/ CNCKlippyReady
    \/ CNC_handle_modal_state

ModalSpec == Init /\ [][ModalNext]_vars

\* the endpoints that take an action or a direction from the caller
CncNext ==
    \/ CNCKlippyReady
    \/ \E a \in ActionInputs, w \in BOOLEAN :
          ModalPost(a, w) /\ UNCHANGED histVars
    \/ CNC_handle_spindle
    \/ CNC_handle_subroutine

CncSpec == Init /\ [][CncNext]_vars

\* the event loop resumes a DELETE request whose awaited command finished
ModalFairSpec ==
    ModalSpec /\ WF_vars((\E w \in BOOLEAN : ModalDeleteStep(w))
                         \/ ModalDeleteReturn)

(***************************************************************************)
(* Sequences of modal POST requests, with the interpreter's snapshots and  *)
(* the commands counted.                                                   *)
(***************************************************************************)
LifoPost(a, willing) ==
    /\ posts < MaxPosts
    /\ ModalPost(a, willing)
    /\ posts' = posts + 1
    /\ LET cmd == lastResp'.command
           sends == lastResp'.sent > 0
           accepted == sends /\ lastResp'.result = "success"
       IN /\ sentCount' = IF sends
                          THEN [sentCount EXCEPT ![cmd] = @ + lastResp'.sent]
                          ELSE sentCount
          /\ okCount' = IF accepted
                        THEN [okCount EXCEPT ![cmd] = @ + 1]
                        ELSE okCount
          /\ snaps' = InterpSnaps(cmd, snaps, accepted, okCount["M70"] + 1)
          /\ restored' = InterpRestored(cmd, snaps, accepted, restored)
    /\ UNCHANGED <<autoSave, autoArg>>

(***************************************************************************)
(* Auto-save requests.                                                     *)
(***************************************************************************)
\* M73 turns automatic save on; no other command changes the flag
InterpAutoSave(cmd, flag, accepted) ==
    IF accepted /\ cmd = "M73" THEN TRUE ELSE flag

\* a POST with action 'auto_save' and a boolean: the handler reads 'action'
\* alone
AutoSavePost(b, willing) ==
    /\ ModalPost("auto_save", willing)
    /\ autoArg' = b
    /\ autoSave' = InterpAutoSave(lastResp'.command, autoSave,
                                  lastResp'.sent > 0
                                     /\ lastResp'.result = "success")
    /\ UNCHANGED <<snaps, restored, posts, sentCount, okCount>>

AutoSaveNext ==
    \/ CNCKlippyReady
    \/ \E b, w \in BOOLEAN : AutoSavePost(b, w)
    \/ \E a \in ActionInputs \ {"auto_save"}, w \in BOOLEAN :
          ModalPost(a, w) /\ UNCHANGED histVars

AutoSaveSpec == Init /\ [][AutoSaveNext]_vars

LifoNext ==
    \/ CNCKlippyReady
    \/ \E a \in ActionInputs, w \in BOOLEAN : LifoPost(a, w)

LifoSpec == Init /\ [][LifoNext]_vars

\* a handler that is one command: _run_gcode(gcode), then the success dict;
\* an exception of run_gcode leaves the handler
OneCommand(op, arg, req, bad, cmd, willing) ==
    LET accepted == InterpToolAccepts(cmd, willing)
    IN /\ printer' = TRUE
       /\ tools' = InterpTools(cmd, accepted)
       /\ current_tool' = InterpCurrent(cmd, accepted)
       /\ monitoring' = InterpMonitoring(cmd, accepted)
       /\ toolResp' = [ToolResp(op, arg,
                                IF accepted THEN "success" ELSE "raised",
                                ~accepted, NoTool, cmd, 1)
                       EXCEPT !.req = req, !.bad = bad,
                              !.was = (op \in {"start", "stop"}
                                          /\ monitoring)]
       /\ UNCHANGED <<statsVars, klippyUp, selWait, infoWait>>

\* an ADD_TOOL that leaves out LENGTH
AddCommandWithoutLength(id, ty, diameter, length) ==
    [name |-> "ADD_TOOL", id |-> id,
     params |-> [type |-> ty, diameter |-> diameter, length |-> 0]]

\* gcode = f'ADD_TOOL ID={tool_id} NAME="{name}" TYPE={tool_type} ...'
AddCommand(id, ty, diameter, length) ==
    [name |-> "ADD_TOOL", id |-> id,
     params |-> [type |-> ty, diameter |-> diameter, length |-> length]]

handle_add_tool(id, ty, diameter, length, willing) ==
    /\ OneCommand("add", Given(id),
                  [type |-> ty, diameter |-> diameter, length |-> length],
                  {}, AddCommand(id, ty, diameter, length), willing)
    /\ UNCHANGED <<readyVars, klippy_apis, resetVars, modalVars>>

\* the value an update request carries for a field
NewValue(f) ==
    CASE f = "diameter" -> 35
      [] f = "length" -> 600

\* for param_name, gcode_param, param_type in params: a field is appended
\* when the request has it; a value get_float or get_int cannot convert
\* raises, and `except: pass` goes on without it
UpdateParams(supplied, bad) ==
    [f \in supplied \ bad |-> NewValue(f)]

handle_update_tool(id, supplied, bad, willing) ==
    /\ OneCommand("update", Given(id),
                  [f \in supplied |-> NewValue(f)], bad,
                  [name |-> "UPDATE_TOOL", id |-> id,
                   params |-> UpdateParams(supplied, bad)], willing)
    /\ UNCHANGED <<readyVars, klippy_apis, resetVars, modalVars>>

handle_delete_tool(id, willing) ==
    /\ OneCommand("delete", Given(id), NoParams, {},
                  [name |-> "REMOVE_TOOL", id |-> id, params |-> NoParams],
                  willing)
    /\ UNCHANGED <<readyVars, klippy_apis, resetVars, modalVars>>

\* a start request that sends the command of the stop request
StartCommandStops ==
    [name |-> "STOP_TOOL_MONITORING", id |-> 0, params |-> NoParams]

\* await self._run_gcode('START_TOOL_MONITORING')
StartCommand ==
    [name |-> "START_TOOL_MONITORING", id |-> 0, params |-> NoParams]

\* await self._run_gcode('STOP_TOOL_MONITORING')
StopCommand ==
    [name |-> "STOP_TOOL_MONITORING", id |-> 0, params |-> NoParams]

handle_start_monitoring(willing) ==
    /\ OneCommand("start", NoArg, NoParams, {}, StartCommand, willing)
    /\ UNCHANGED <<readyVars, klippy_apis, resetVars, modalVars>>

handle_stop_monitoring(willing) ==
    /\ OneCommand("stop", NoArg, NoParams, {}, StopCommand, willing)
    /\ UNCHANGED <<readyVars, klippy_apis, resetVars, modalVars>>

handle_export_tools(willing) ==
    /\ OneCommand("export", NoArg, NoParams, {},
                  [name |-> "EXPORT_TOOLS", id |-> 0, params |-> NoParams],
                  willing)
    /\ UNCHANGED <<readyVars, klippy_apis, resetVars, modalVars>>

\* the 'overwrite' argument
OverwriteInputs == {"omitted", "true", "false"}

\* overwrite = web_request.get_boolean('overwrite', False)
OverwriteOf(o) == o = "true"

\* an import that always overwrites
OverwriteParamAlways(overwrite) == 1

\* OVERWRITE={1 if overwrite else 0}
OverwriteParam(overwrite) == IF overwrite THEN 1 ELSE 0

handle_import_tools(o, willing) ==
    /\ OneCommand("import", NoArg, [overwrite |-> o], {},
                  [name |-> "IMPORT_TOOLS", id |-> 0,
                   params |-> [overwrite |-> OverwriteParam(OverwriteOf(o))]],
                  willing)
    /\ UNCHANGED <<readyVars, klippy_apis, resetVars, modalVars>>

\* a handler that is one status query: the response is made of the status,
\* an exception of the query leaves the handler
OneQuery(op, req, resp, willing) ==
    /\ printer' = TRUE
    /\ toolResp' = IF Reaches(willing) THEN [resp EXCEPT !.req = req]
                   ELSE [ToolResp(op, NoArg, "raised", TRUE, NoTool, NoCmd, 0)
                         EXCEPT !.req = req]
    /\ UNCHANGED <<statsVars, klippyUp, tools, current_tool, monitoring, selWait,
                   infoWait>>

\* the 'type' argument of the list request
TypeFilters == {"omitted", "drill"}

RECURSIVE OfType(_, _)
\* tools = [t for t in tools if t['type'] == tool_type]
OfType(list, ty) ==
    IF list = << >> THEN << >>
    ELSE IF Head(list).type = ty THEN <<Head(list)>> \o OfType(Tail(list), ty)
    ELSE OfType(Tail(list), ty)

\* if tool_type: ...
Filtered(list, filter) ==
    IF filter = "omitted" THEN list ELSE OfType(list, filter)

\* 'tools', 'current_tool' and 'tool_count' of the status query
handle_list_tools(filter, willing) ==
    /\ OneQuery("list", [type |-> filter],
                [ToolResp("list", NoArg, "success", FALSE, StatusCurrent,
                          NoCmd, 0)
                 EXCEPT !.listing = Filtered(StatusTools, filter)], willing)
    /\ UNCHANGED <<readyVars, klippy_apis, resetVars, modalVars>>

\* a status request that sends a command before it asks
MonitoringStatusByCommand(willing) ==
    /\ OneCommand("status", NoArg, NoParams, {}, StartCommand, willing)
    /\ UNCHANGED <<readyVars, klippy_apis, resetVars, modalVars>>

\* monitoring = result.get('status', {}).get('tool_monitoring', {});
\* return monitoring
handle_monitoring_status(willing) ==
    /\ OneQuery("status", NoParams,
                [ToolResp("status", NoArg, "success", FALSE, NoTool, NoCmd, 0)
                 EXCEPT !.active = monitoring], willing)
    /\ UNCHANGED <<readyVars, klippy_apis, resetVars, modalVars>>

InFlight == Cardinality(selWait) + Cardinality(infoWait)

\* _handle_select_tool up to the status query: SELECT_TOOL is sent
SelectCommand(id, willing) ==
    LET cmd == [name |-> "SELECT_TOOL", id |-> id, params |-> NoParams]
        accepted == InterpToolAccepts(cmd, willing)
    IN /\ id \notin selWait
       /\ (InFlight < MaxInFlight \/ ~accepted)
       /\ printer' = TRUE
       /\ current_tool' = InterpCurrent(cmd, accepted)
       /\ selWait' = IF accepted THEN selWait \cup {id} ELSE selWait
       /\ toolResp' = IF accepted THEN toolResp
                      ELSE ToolResp("select", Given(id), "raised", TRUE,
                                    NoTool, cmd, 1)
       /\ UNCHANGED <<statsVars, klippyUp, tools, monitoring, infoWait>>
       /\ UNCHANGED <<readyVars, klippy_apis, resetVars, modalVars>>

\* a response made of the request: the view updated optimistically
SelectedToolOfRequest(id) == [NoTool EXCEPT !.id = id]

\* current_tool = result.get('status', {}).get('tool_database', {})
\*                      .get('current_tool')
SelectedTool(id) == StatusCurrent

\* the rest of _handle_select_tool: the status query and the response
SelectQuery(id, willing) ==
    /\ id \in selWait
    /\ selWait' = selWait \ {id}
    /\ toolResp' =
         ToolResp("select", Given(id),
                  IF Reaches(willing) THEN "success" ELSE "raised",
                  ~Reaches(willing),
                  IF Reaches(willing) THEN SelectedTool(id) ELSE NoTool,
                  [name |-> "SELECT_TOOL", id |-> id, params |-> NoParams],
                  1)
    /\ UNCHANGED <<statsVars, klippyUp, printer, tools, current_tool, monitoring,
                   infoWait>>
    /\ UNCHANGED <<readyVars, klippy_apis, resetVars, modalVars>>

handle_select_tool(ids) ==
    \/ \E id \in ids, w \in BOOLEAN : SelectCommand(id, w)
    \/ \E id \in ids, w \in BOOLEAN : SelectQuery(id, w)

\* if tool_id:
ById(arg) == arg.given /\ arg.id # 0

\* gcode = f'TOOL_INFO ID={tool_id}' or 'TOOL_INFO'
InfoCommand(arg) ==
    [name |-> "TOOL_INFO", id |-> IF ById(arg) THEN arg.id ELSE 0,
     params |-> IF ById(arg) THEN [id |-> arg.id] ELSE NoParams]

\* a bare query answered with the first tool of the listing
FoundToolFirstListed(arg) ==
    IF ById(arg)
    THEN IF \E i \in 1..Len(StatusTools) : StatusTools[i].id = arg.id
         THEN StatusTools[CHOOSE i \in 1..Len(StatusTools) :
                              StatusTools[i].id = arg.id]
         ELSE NoTool
    ELSE IF Len(StatusTools) > 0 THEN StatusTools[1] ELSE NoTool

\* tool = next((t for t in tools if t['id'] == tool_id), None), or
\* current_tool for the query without identifier
FoundTool(arg) ==
    IF ById(arg)
    THEN IF \E i \in 1..Len(StatusTools) : StatusTools[i].id = arg.id
         THEN StatusTools[CHOOSE i \in 1..Len(StatusTools) :
                              /\ StatusTools[i].id = arg.id
                              /\ \A j \in 1..(i - 1) :
                                    StatusTools[j].id # arg.id]
         ELSE NoTool
    ELSE StatusCurrent

\* _handle_tool_info up to the status query: TOOL_INFO is sent
InfoCommandStep(arg, willing) ==
    LET cmd == InfoCommand(arg)
        accepted == InterpToolAccepts(cmd, willing)
    IN /\ arg \notin infoWait
       /\ (InFlight < MaxInFlight \/ ~accepted)
       /\ printer' = TRUE
       /\ infoWait' = IF accepted THEN infoWait \cup {arg} ELSE infoWait
       /\ toolResp' = IF accepted THEN toolResp
                      ELSE ToolResp("info", arg, "raised", TRUE, NoTool,
                                    cmd, 1)
       /\ UNCHANGED <<statsVars, klippyUp, tools, current_tool, monitoring, selWait>>
       /\ UNCHANGED <<readyVars, klippy_apis, resetVars, modalVars>>

\* the rest of _handle_tool_info: the status query, the lookup, and the
\* record or HTTPError(404, "Tool not found")
InfoQuery(arg, willing) ==
    /\ arg \in infoWait
    /\ infoWait' = infoWait \ {arg}
    /\ toolResp' =
         IF ~Reaches(willing)
         THEN ToolResp("info", arg, "raised", TRUE, NoTool,
                       InfoCommand(arg), 1)
         ELSE IF FoundTool(arg) = NoTool
         THEN ToolResp("info", arg, "http404", FALSE, NoTool,
                       InfoCommand(arg), 1)
         ELSE ToolResp("info", arg, "success", FALSE, FoundTool(arg),
                       InfoCommand(arg), 1)
    /\ UNCHANGED <<statsVars, klippyUp, printer, tools, current_tool, monitoring,
                   selWait>>
    /\ UNCHANGED <<readyVars, klippy_apis, resetVars, modalVars>>

handle_tool_info(args) ==
    \/ \E arg \in args, w \in BOOLEAN : InfoCommandStep(arg, w)
    \/ \E arg \in args, w \in BOOLEAN : InfoQuery(arg, w)

(***************************************************************************)
(* The manual re-trigger endpoints: M2RestartHandler._handle_restart_      *)
(* endpoint and M30Handler._handle_m30_endpoint                            *)
(***************************************************************************)
\* an endpoint that sets its message before the command has returned
ManualEndpointReportsEarly(op, lookupOk, willing) ==
    LET done == lookupOk /\ Reaches(willing)
    IN /\ toolResp' =
            [ToolResp(op, NoArg, "ok", lookupOk /\ ~done, NoTool,
                      [name |-> "SDCARD_RESET_FILE", id |-> 0,
                       params |-> NoParams],
                      IF lookupOk THEN 1 ELSE 0)
             EXCEPT !.message = "file position reset"]
       /\ UNCHANGED <<statsVars, klippyUp, printer, tools, current_tool, monitoring,
                      selWait, infoWait>>
       /\ UNCHANGED <<readyVars, klippy_apis, resetVars, modalVars>>

\* try: lookup_component('klippy_apis'); run_gcode("SDCARD_RESET_FILE");
\* message = "... executed - file position reset ..."
\* except Exception: message = "... acknowledged (Klipper not connected)"
\* return {"result": "ok", "message": message}
ManualEndpoint(op, lookupOk, willing) ==
    LET done == lookupOk /\ Reaches(willing)
    IN /\ toolResp' =
            [ToolResp(op, NoArg, "ok", lookupOk /\ ~done, NoTool,
                      [name |-> "SDCARD_RESET_FILE", id |-> 0,
                       params |-> NoParams],
                      IF lookupOk THEN 1 ELSE 0)
             EXCEPT !.message = IF done THEN "file position reset"
                                ELSE "acknowledged"]
       /\ UNCHANGED <<statsVars, klippyUp, printer, tools, current_tool, monitoring,
                      selWait, infoWait>>
       /\ UNCHANGED <<readyVars, klippy_apis, resetVars, modalVars>>

M2_handle_restart_endpoint ==
    \E lookupOk, w \in BOOLEAN : ManualEndpoint("restart", lookupOk, w)

M30_handle_m30_endpoint ==
    \E lookupOk, w \in BOOLEAN : ManualEndpoint("m30", lookupOk, w)

(***************************************************************************)
(* The interpreter becomes reachable and unreachable.                      *)
(***************************************************************************)
KlippyConnects ==
    /\ ~klippyUp
    /\ klippyUp' = TRUE
    /\ UNCHANGED <<statsVars, printer, tools, current_tool, monitoring, selWait,
                   infoWait, toolResp>>
    /\ UNCHANGED <<readyVars, klippy_apis, resetVars, modalVars>>

KlippyDisconnects ==
    /\ klippyUp
    /\ klippyUp' = FALSE
    /\ UNCHANGED <<statsVars, printer, tools, current_tool, monitoring, selWait,
                   infoWait, toolResp>>
    /\ UNCHANGED <<readyVars, klippy_apis, resetVars, modalVars>>

\* the manual re-trigger endpoints beside the completion listeners: program
\* runs, automatic resets that succeed or fail, and manual requests while
\* the interpreter is reachable or not
ManualNext ==
    \/ RunsNext
    \/ KlippyConnects
    \/ KlippyDisconnects
    \/ M2_handle_restart_endpoint
    \/ M30_handle_m30_endpoint

ManualSpec == Init /\ [][ManualNext]_vars

\* the tool registry: requests name the tools of ToolIds, a query any
\* identifier or none; the interpreter connects and stays connected, and
\* may fail any call
RegistryNext ==
    \/ KlippyConnects
    \/ \E id \in ToolIds, ty \in AddTypes, d \in AddDiameters,
          l \in AddLengths, w \in BOOLEAN : handle_add_tool(id, ty, d, l, w)
    \/ \E id \in ToolIds, supplied \in SUBSET Fields, w \in BOOLEAN :
          \E bad \in SUBSET (supplied \cap Malformed) :
             handle_update_tool(id, supplied, bad, w)
    \/ \E id \in ToolIds, w \in BOOLEAN : handle_delete_tool(id, w)
    \/ handle_select_tool(ToolIds)
    \/ handle_tool_info(IdArgs)

RegistrySpec == Init /\ [][RegistryNext]_vars

\* every endpoint of ToolDatabaseAPI and the two manual re-trigger
\* endpoints, the requests about one tool; the interpreter connects and
\* disconnects
RestNext ==
    \/ KlippyConnects
    \/ KlippyDisconnects
    \/ \E id \in OneTool, ty \in AddTypes \cup UnknownTypes,
          d \in AddDiameters, l \in AddLengths, w \in BOOLEAN :
             handle_add_tool(id, ty, d, l, w)
    \/ \E id \in OneTool, w \in BOOLEAN :
          handle_update_tool(id, Fields, {}, w)
    \/ \E id \in OneTool, w \in BOOLEAN : handle_delete_tool(id, w)
    \/ handle_select_tool(OneTool)
    \/ handle_tool_info({NoArg} \cup {Given(id) : id \in OneTool})
    \/ \E f \in TypeFilters, w \in BOOLEAN : handle_list_tools(f, w)
    \/ \E w \in BOOLEAN : handle_start_monitoring(w)
    \/ \E w \in BOOLEAN : handle_stop_monitoring(w)
    \/ \E w \in BOOLEAN : handle_monitoring_status(w)
    \/ \E w \in BOOLEAN : handle_export_tools(w)
    \/ \E o \in OverwriteInputs, w \in BOOLEAN : handle_import_tools(o, w)
    \/ M2_handle_restart_endpoint
    \/ M30_handle_m30_endpoint

RestSpec == Init /\ [][RestNext]_vars

(***************************************************************************)
(* ToolDatabaseAPI._handle_tool_stats                                      *)
(***************************************************************************)
\* key=lambda t: t.get('total_runtime', 0)
RuntimeKey(t) == IF t.timed THEN t.total_runtime ELSE 0

\* a maximum that a later item of equal key takes over
TakesOverOnTie(item, best) == RuntimeKey(item) >= RuntimeKey(best)

\* max(): a later item takes over only with a greater key
TakesOver(item, best) == RuntimeKey(item) > RuntimeKey(best)

RECURSIVE MaxFrom(_, _, _)
MaxFrom(list, i, best) ==
    IF i > Len(list) THEN best
    ELSE MaxFrom(list, i + 1,
                 IF TakesOver(list[i], best) THEN list[i] ELSE best)

\* most_used = max(tools, key=...) if tools else None
MostUsed(list) == IF list = << >> THEN NoStat ELSE MaxFrom(list, 2, list[1])

\* the interpreter's listing changes: tools are added, removed, used
InterpReports(l) ==
    /\ statList' = l
    /\ UNCHANGED <<klippyUp, printer, tools, current_tool, monitoring,
                   selWait, infoWait, toolResp, statsResp>>
    /\ UNCHANGED <<readyVars, klippy_apis, resetVars, modalVars>>

\* one status query, then the statistics of its 'tools'; an exception of
\* the query leaves the handler
handle_tool_stats(willing) ==
    /\ printer' = TRUE
    /\ statsResp' = IF Reaches(willing)
                    THEN [outcome |-> "success", seen |-> statList,
                          most_used |-> MostUsed(statList)]
                    ELSE [outcome |-> "raised", seen |-> << >>,
                          most_used |-> NoStat]
    /\ UNCHANGED <<klippyUp, tools, current_tool, monitoring, selWait,
                   infoWait, toolResp, statList>>
    /\ UNCHANGED <<readyVars, klippy_apis, resetVars, modalVars>>

StatsNext ==
    \/ KlippyConnects
    \/ KlippyDisconnects
    \/ \E l \in Listings : InterpReports(l)
    \/ \E w \in BOOLEAN : handle_tool_stats(w)

StatsSpec == Init /\ [][StatsNext]_vars

(***************************************************************************)
(* Claims about the completion listeners.                                  *)
(***************************************************************************)
TotalIssued(g) == resetIssued["m2"][g] + resetIssued["m30"][g]

RECURSIVE SumIssued(_)
SumIssued(g) == IF g = 0 THEN TotalIssued(0) ELSE TotalIssued(g) + SumIssued(g - 1)

TotalResets == SumIssued(MaxRuns)

\* every listener task given the 'complete' update of generation g has run
\* its state test
AllObserved(g) ==
    /\ TotalIssued(g) > 0 \/ lookupFailed[g]
    /\ \A h \in Handlers : newTasks[h]["complete"][g] = 0

NoResetFailed == \A g \in Gens : ~resetFailed[g] /\ ~lookupFailed[g]

\* C1: one completion notification, observed by every registered listener
\* in any interleaving, leads to exactly one SDCARD_RESET_FILE for that
\* generation: never more than one, and one once all listeners have
\* observed it (no lookup having failed).
C1_ExactlyOneResetPerCompletion ==
    \A g \in Gens :
        completions[g] = 1 =>
            /\ TotalIssued(g) <= 1
            /\ (AllObserved(g) /\ ~lookupFailed[g]) => TotalIssued(g) = 1

\* C2: a listener registered once sends SDCARD_RESET_FILE at most once per
\* run, however often the 'complete' update of that run is delivered to it.
C2_RedeliveryResetsAtMostOnce ==
    \A h \in Handlers, g \in Gens :
        listeners[h] <= 1 => resetIssued[h][g] <= 1

\* C3: once every listener task has finished and no reset has failed, the
\* number of automatic resets equals the number of completed runs that
\* were observed.
C3_ResetsEqualCompletedRuns ==
    (/\ pending = 0
     /\ NoResetFailed
     /\ \A g \in Gens : completions[g] > 0 => TotalIssued(g) > 0)
    => TotalResets = Cardinality({g \in Gens : completions[g] > 0})

\* C4: once an automatic reset of the current run has failed, no further
\* SDCARD_RESET_FILE is sent for that run while no program has started.
C4_NoResetAfterFailedReset ==
    [][\A g \in Gens :
          (resetFailed[g] /\ gen = g /\ gen' = g)
          => TotalIssued(g)' = TotalIssued(g)]_vars

\* C5: no exception ever leaves a completion listener: a failed lookup or
\* a raising run_gcode is caught and logged inside the callback.
C5_ListenerNeverRaises == escaped = 0

\* a lookup has raised, a run_gcode has raised, and every listener task has
\* returned
C5_FailureSwallowed ==
    /\ \E g \in Gens : resetFailed[g]
    /\ \E g \in Gens : lookupFailed[g]
    /\ pending = 0

\* C6: a listener sends no command for a status update without print_stats
\* or whose print_stats state is not 'complete'.
C6_OnlyCompleteTriggers == otherSent = 0

\* a listener has handled a non-'complete' update and has returned
C6_OtherUpdateHandled ==
    /\ ranOther
    /\ \A h \in Handlers : listeners[h] > 0
    /\ pending = 0
    /\ printState \in {"cancelled", "error"}


(***************************************************************************)
(* Claims about the modal-state endpoint.                                  *)
(***************************************************************************)
\* C7: a Save requested at depth 10 is answered with an error, and the
\* depth stays 10.
C7_SaveAtCapacityRefused ==
    (/\ lastResp.req = "POST"
     /\ lastResp.action = "save"
     /\ lastResp.pre = ModalBound)
    => (lastResp.result = "error" /\ lastResp.post = lastResp.pre)

\* C8: the modal-state stack depth is always between 0 and 10.
C8_DepthWithinBound == depth \in 0..ModalBound

\* C9: Restore or InvalidateTop on an empty stack is answered with success
\* and the note that no state is saved, and the stack stays empty.
C9_EmptyPopIsBenign ==
    (/\ lastResp.req = "POST"
     /\ lastResp.action \in {"restore", "invalidate"}
     /\ lastResp.pre = 0)
    => /\ lastResp.result = "success"
       /\ lastResp.message = "No state saved"
       /\ lastResp.post = 0

\* C10: a DELETE request sends at most 10 M71 commands and, once in its
\* loop, always returns.
C10_InvalidateAllTerminates ==
    /\ [](delSent <= ModalBound)
    /\ (delPc = "loop") ~> (delPc = "idle")

\* a DELETE request has returned after all 10 discards, with states left
C10_ReturnedAfterTenDiscards ==
    /\ delPc = "idle"
    /\ lastResp.req = "DELETE"
    /\ lastResp.sent = ModalBound
    /\ depth > 0

\* C11: in a DELETE request the first M71 that fails ends the loop, and the
\* request returns without sending another M71; so a request that began at
\* depth d < 10, whose stack no other request changed and whose failing M71
\* found the stack empty, has sent exactly d + 1 M71 commands.
C11_StopsAtFirstFailure ==
    /\ [][(delPc = "loop" /\ delSent' = delSent + 1 /\ depth' = depth)
          => /\ delPc' = "idle"
             /\ lastResp'.req = "DELETE"
             /\ lastResp'.sent = delSent']_vars
    /\ [][(/\ delPc = "loop"
           /\ delPc' = "idle"
           /\ delAlone
           /\ delStart < ModalBound
           /\ lastResp'.pre = 0)
          => lastResp'.sent = delStart + 1]_vars

\* a DELETE request that began at depth 2 has returned after its third M71
\* failed on the emptied stack
C11_StoppedOnEmptyStack ==
    /\ delPc = "idle"
    /\ lastResp.req = "DELETE"
    /\ lastResp.pre = 0
    /\ lastResp.sent = 3
    /\ delI = 2
    /\ depth = 0

(***************************************************************************)
(* Claims about sequences of modal POST requests.                          *)
(***************************************************************************)
KnownActions == {"save", "restore", "invalidate", "auto_save"}

\* the modal POST request of this step was handled with the interpreter
\* connected
PostHandled ==
    /\ posts' = posts + 1
    /\ lastResp'.message # "Klippy not connected"

C13_OneCommandPerAction ==
    /\ [][PostHandled
          => /\ lastResp'.action = "save"
                => sentCount' = [sentCount EXCEPT !["M70"] = @ + 1]
             /\ lastResp'.action = "restore"
                => sentCount' = [sentCount EXCEPT !["M72"] = @ + 1]
             /\ lastResp'.action = "invalidate"
                => sentCount' = [sentCount EXCEPT !["M71"] = @ + 1]
             /\ lastResp'.action = "auto_save"
                => sentCount' = [sentCount EXCEPT !["M73"] = @ + 1]
             /\ lastResp'.action \notin KnownActions
                => sentCount' = sentCount]_vars
    /\ [](okCount["M71"] = 0 => depth = okCount["M70"] - okCount["M72"])
    /\ [](okCount["M72"] <= sentCount["M72"])

\* Save, Save, Save, Restore, Restore, every one accepted: depth 1 and two
\* M72 issued
C13_ThreeSavesTwoRestores ==
    /\ posts = 5
    /\ okCount["M70"] = 3
    /\ sentCount["M70"] = 3
    /\ okCount["M72"] = 2
    /\ sentCount["M72"] = 2
    /\ sentCount["M71"] = 0
    /\ sentCount["M73"] = 0
    /\ depth = 1

(***************************************************************************)
(* Claims about the caller's action and direction values.                  *)
(***************************************************************************)
Refused == lastResp.result = "error" /\ lastResp.sent = 0

\* C16 as stated: an unrecognized modal action, subroutine action or
\* spindle direction is answered with an error, and the request sends no
\* command.
C16_UnrecognizedValueRefused ==
    /\ (lastResp.req = "POST" /\ lastResp.action \notin KnownActions)
       => Refused
    /\ (lastResp.req = "SUBROUTINE_POST"
        /\ lastResp.action \notin {"call", "return"})
       => Refused
    /\ (lastResp.req = "SPINDLE_POST" /\ lastResp.action \notin {"cw", "ccw"})
       => Refused

\* C16 amended: as stated, for the spindle when the request enables it; a
\* request that stops the spindle does not look at the direction.
C16_UnrecognizedValueRefusedWhenUsed ==
    /\ (lastResp.req = "POST" /\ lastResp.action \notin KnownActions)
       => Refused
    /\ (lastResp.req = "SUBROUTINE_POST"
        /\ lastResp.action \notin {"call", "return"})
       => Refused
    /\ (lastResp.req = "SPINDLE_POST" /\ lastResp.enable
        /\ lastResp.action \notin {"cw", "ccw"})
       => Refused

\* a connected spindle request that enables the spindle in an unrecognized
\* direction has been refused
C16_UnknownDirectionRefused ==
    /\ klippy_apis
    /\ lastResp.req = "SPINDLE_POST"
    /\ lastResp.enable
    /\ lastResp.action = "unknown"
    /\ lastResp.message = "Invalid direction"
    /\ Refused

(***************************************************************************)
(* Claims about failures of the interpreter at the REST endpoints.         *)
(***************************************************************************)
ToolOps == {"list", "add", "update", "delete", "select", "info", "start",
            "stop", "status", "export", "import"}

\* C14: while the interpreter is not connected, every response of a tool
\* registry or tool monitor endpoint is the structured 'not connected'
\* result, never a raised exception, also after the interpreter was
\* connected once.
C14_NotConnectedResult ==
    [][(~klippyUp /\ toolResp' # toolResp /\ toolResp'.op \in ToolOps)
          => toolResp'.outcome = "not_connected"]_vars

\* C15: when the connected interpreter fails a call of a request, the
\* response is a structured error (not success, not a raised exception),
\* and the command was sent once.
C15_FailureCarriedToCaller ==
    [][(klippyUp /\ toolResp' # toolResp /\ toolResp'.failed)
          => /\ toolResp'.outcome = "error"
             /\ toolResp'.calls = 1]_vars

(***************************************************************************)
(* Claims about the tool registry.                                         *)
(***************************************************************************)
\* the response of an info request whose calls the interpreter answered
InfoAnswered(resp) == resp.op = "info" /\ ~resp.failed

\* C17: an info request by id answered next after a successful add of that
\* id returns the record of that id with every field the add request
\* carried; the record is the one of the status query.
C17_AddThenGet ==
    [][(/\ toolResp.op = "add" /\ toolResp.outcome = "success"
        /\ InfoAnswered(toolResp')
        /\ toolResp'.given /\ toolResp'.id = toolResp.id)
          => /\ toolResp'.outcome = "success"
             /\ toolResp'.tool.id = toolResp.id
             /\ toolResp'.tool = tools[toolResp.id]
             /\ \A f \in DOMAIN toolResp.req :
                   toolResp'.tool[f] = toolResp.req[f]]_vars

\* an info request by id has returned the record as it was added
C17_GotAddedTool ==
    /\ toolResp.op = "info" /\ toolResp.given /\ toolResp.id = 1
    /\ toolResp.outcome = "success"
    /\ toolResp.tool = [id |-> 1, type |-> "drill", diameter |-> 30,
                        length |-> 500]

\* the fields an update request supplies whose value converts
Converted(resp) == DOMAIN resp.req \ resp.bad

\* C18: the UPDATE_TOOL command of an update reported successful carries
\* exactly the fields the request supplies, with their values.
C18_CommandCarriesSuppliedFields ==
    (toolResp.op = "update" /\ toolResp.outcome = "success")
       => /\ DOMAIN toolResp.cmd.params = DOMAIN toolResp.req
          /\ \A f \in DOMAIN toolResp.req :
                toolResp.cmd.params[f] = toolResp.req[f]

\* The part of C18 that holds: the UPDATE_TOOL command carries exactly the
\* supplied fields whose value converts, and after a successful update
\* every other field of the tool has its previous value and the carried
\* ones the request's.
PartialPatchOfConverted ==
    /\ [](toolResp.op = "update"
            => /\ DOMAIN toolResp.cmd.params = Converted(toolResp)
               /\ \A f \in Converted(toolResp) :
                     toolResp.cmd.params[f] = toolResp.req[f])
    /\ [][(toolResp'.op = "update" /\ toolResp'.outcome = "success")
            => \A f \in DOMAIN NoTool :
                  tools'[toolResp'.id][f] =
                     IF f \in Converted(toolResp') THEN toolResp'.req[f]
                     ELSE tools[toolResp'.id][f]]_vars

\* C19: a bare info request answered next after a select of a registered
\* id (answered with that tool, no other select in flight) returns the
\* record whose id is the selected id.
C19_SelectThenGetCurrent ==
    [][(/\ toolResp.op = "select" /\ toolResp.outcome = "success"
        /\ toolResp.tool.id = toolResp.id
        /\ selWait = {}
        /\ InfoAnswered(toolResp')
        /\ ~toolResp'.given)
          => /\ toolResp'.outcome = "success"
             /\ toolResp'.tool.id = toolResp.id
             /\ toolResp'.tool = tools[toolResp.id]]_vars

\* with two tools registered and the second selected, the bare info request
\* has returned the second
C19_GotSelectedSecond ==
    /\ toolResp.op = "info" /\ ~toolResp.given
    /\ toolResp.outcome = "success"
    /\ tools[1] # NoTool
    /\ current_tool = 2
    /\ toolResp.tool = tools[2]

\* the status query of an info request is answered in this step
InfoQueried == infoWait' # infoWait /\ infoWait' \subseteq infoWait

\* the listing holds a tool with this id
Listed(id) == \E i \in ToolIds : tools[i] # NoTool /\ tools[i].id = id

\* C20: an info request whose calls the interpreter answered fails with
\* HTTP 404 exactly when, asked by id, no tool of the listing has that id,
\* or, asked without id, no tool is selected.
C20_NotFoundExactlyWhenMissing ==
    [][(InfoQueried /\ InfoAnswered(toolResp'))
          => (toolResp'.outcome = "http404"
                <=> IF toolResp'.given THEN ~Listed(toolResp'.id)
                    ELSE current_tool = 0)]_vars

(***************************************************************************)
(* Claims about the statistics, import and monitor endpoints.              *)
(***************************************************************************)
\* the entry at position i has the greatest total runtime of the listing,
\* and every entry before it a smaller one
FirstGreatest(list, i) ==
    /\ \A j \in 1..Len(list) : RuntimeKey(list[j]) <= RuntimeKey(list[i])
    /\ \A j \in 1..(i - 1) : RuntimeKey(list[j]) < RuntimeKey(list[i])

\* C21: most_used_tool is the entry of the listing with the greatest total
\* runtime, of several with the greatest the first in listing order, and
\* None for the empty listing.
C21_MostUsedIsFirstGreatest ==
    statsResp.outcome = "success"
       => IF statsResp.seen = << >> THEN statsResp.most_used = NoStat
          ELSE \E i \in 1..Len(statsResp.seen) :
                  /\ statsResp.most_used = statsResp.seen[i]
                  /\ FirstGreatest(statsResp.seen, i)

\* of two tools with the greatest total runtime, the second listed with
\* the lower id, the first listed was returned
C21_TieWonByFirstListed ==
    /\ statsResp.outcome = "success"
    /\ Len(statsResp.seen) = 3
    /\ statsResp.seen[1].id = 3
    /\ statsResp.seen[2].id = 2
    /\ statsResp.seen[3].id = 1
    /\ statsResp.most_used.id = 2

\* the status query of a select request is answered in this step
SelectQueried == selWait' # selWait /\ selWait' \subseteq selWait

\* a record of the interpreter's status: the current tool or one of the
\* listing
OfStatus(tool) ==
    \/ tool = StatusCurrent
    \/ \E i \in 1..Len(StatusTools) : tool = StatusTools[i]

RECURSIVE IsSubSeq(_, _)
\* the entries of s are entries of t, in the order of t
IsSubSeq(s, t) ==
    IF s = << >> THEN TRUE
    ELSE IF t = << >> THEN FALSE
    ELSE IF Head(s) = Head(t) THEN IsSubSeq(Tail(s), Tail(t))
    ELSE IsSubSeq(s, Tail(t))

\* C22: the records a select, info or list response returns are the ones
\* of the interpreter's status at the request's status query, which comes
\* after the request's command; nothing of the response is made of the
\* request.
C22_ViewIsStatus ==
    /\ [][(SelectQueried /\ toolResp'.outcome = "success")
            => toolResp'.tool = StatusCurrent]_vars
    /\ [][(InfoQueried /\ InfoAnswered(toolResp')
              /\ toolResp'.outcome = "success")
            => toolResp'.tool # NoTool /\ OfStatus(toolResp'.tool)]_vars
    /\ [][(toolResp' # toolResp /\ toolResp'.op = "list"
              /\ toolResp'.outcome = "success")
            => /\ toolResp'.tool = StatusCurrent
               /\ IsSubSeq(toolResp'.listing, StatusTools)]_vars

\* a select of tool 1 was answered after the tool was removed: the response
\* shows no current tool
C22_SelectAnsweredAfterRemoval ==
    /\ toolResp.op = "select" /\ toolResp.id = 1
    /\ toolResp.outcome = "success"
    /\ toolResp.tool = NoTool
    /\ tools[1] = NoTool

\* C23: the IMPORT_TOOLS command carries OVERWRITE=1 exactly when the
\* request's overwrite flag is true, and 0 when it is false or omitted; an
\* accepted import whose flag is not true leaves every existing record as
\* it was.
C23_OverwriteForwarded ==
    /\ [](toolResp.op = "import"
            => toolResp.cmd.params.overwrite =
                  IF toolResp.req.overwrite = "true" THEN 1 ELSE 0)
    /\ [][(toolResp' # toolResp /\ toolResp'.op = "import"
              /\ toolResp'.outcome = "success"
              /\ toolResp'.req.overwrite # "true")
            => \A i \in ToolIds : tools[i] # NoTool => tools'[i] = tools[i]]_vars

\* an import without the flag was accepted and the record of tool 1, which
\* the snapshot holds too, is the one that was added
C23_ImportKeptExisting ==
    /\ toolResp.op = "import" /\ toolResp.outcome = "success"
    /\ toolResp.req.overwrite = "omitted"
    /\ tools[1] # NoTool
    /\ tools[1] # Snapshot[1]

\* C24: a start request the interpreter accepts reports success and leaves
\* the monitor active, a stop request it accepts reports success and leaves
\* it inactive, whether the monitor was active before or not; the handlers
\* send their command without looking at the monitor.
C24_StartStopIdempotent ==
    /\ ((toolResp.op = "start" /\ ~toolResp.failed)
          => toolResp.outcome = "success" /\ monitoring)
    /\ ((toolResp.op = "stop" /\ ~toolResp.failed)
          => toolResp.outcome = "success" /\ ~monitoring)
    /\ (toolResp.op \in {"start", "stop"} => toolResp.calls = 1)

\* the monitor was active when a start request came, and the request
\* reported success
C24_StartedTwice ==
    /\ toolResp.op = "start" /\ toolResp.was
    /\ toolResp.outcome = "success"
    /\ monitoring

\* C25: a monitor status request sends no command, changes nothing of the
\* monitor, the registry or the modal stack, and returns the active flag
\* the interpreter reports.
C25_StatusReadsThrough ==
    [][(toolResp' # toolResp /\ toolResp'.op = "status")
          => /\ toolResp'.calls = 0
             /\ toolResp'.cmd = NoCmd
             /\ UNCHANGED <<monitoring, tools, current_tool, depth, snaps>>
             /\ (toolResp'.outcome = "success"
                   => toolResp'.active = monitoring)]_vars

\* the status of an active monitor was returned
C25_ActiveReported ==
    /\ toolResp.op = "status" /\ toolResp.outcome = "success"
    /\ toolResp.active
    /\ toolResp.calls = 0

(***************************************************************************)
(* Claims about invalidate-all and auto-save.                              *)
(***************************************************************************)
\* C26: a DELETE request that began at a depth of at most 10, and whose
\* stack no other request changed, returns 'All modal states cleared' with
\* the stack empty, whatever the outcomes of its M71 commands.
C26_ClearedMeansEmpty ==
    [][(/\ delPc = "loop"
        /\ delPc' = "idle"
        /\ delAlone
        /\ delStart <= ModalBound)
          => /\ lastResp'.message = "All modal states cleared"
             /\ depth' = 0]_vars

\* C27: after an accepted auto-save request the interpreter's auto-save
\* flag is the request's boolean, and two auto-save requests with different
\* booleans send different commands.
C27_AutoSaveFollowsArgument ==
    /\ []((lastResp.action = "auto_save" /\ lastResp.result = "success")
            => autoSave = autoArg)
    /\ [][(/\ lastResp.action = "auto_save" /\ lastResp.sent = 1
           /\ lastResp'.action = "auto_save" /\ lastResp'.sent = 1
           /\ autoArg' # autoArg)
            => lastResp'.command # lastResp.command]_vars

(***************************************************************************)
(* Claims about the arguments of an add request.                           *)
(***************************************************************************)
\* the tool categories
Categories == {"drill", "endmill", "tap", "boring-bar"}

\* C28: an add request whose type is no tool category is answered with an
\* invalid-argument result and sends no ADD_TOOL.
C28_UnknownCategoryRefused ==
    (toolResp.op = "add" /\ toolResp.req.type \notin Categories)
       => /\ toolResp.outcome = "invalid_argument"
          /\ toolResp.calls = 0

(***************************************************************************)
(* Claims about the listeners over restarts of the interpreter.            *)
(***************************************************************************)
\* a 'complete' update of generation g has been delivered while a listener
\* was registered: a listener task for it exists
CompletionObserved(g) ==
    /\ completions[g] > 0
    /\ \E h \in Handlers : newTasks[h]["complete"][g] > 0

\* a listener has entered its reset branch for generation g: it has called
\* run_gcode("SDCARD_RESET_FILE"), or the lookup in front of the call raised
ResetAttempted(g) == TotalIssued(g) > 0 \/ lookupFailed[g]

C30_ListenerRegisteredOnce ==
    /\ \A h \in Handlers : listeners[h] <= 1
    /\ \A h \in Handlers, g \in Gens : resetIssued[h][g] <= completions[g]

\* C31: a successful select response that carries a tool record carries the
\* record of the id the request selected, also while another select is
\* between its command and its status query.
C31_SelectReportsSelected ==
    (/\ toolResp.op = "select" /\ toolResp.outcome = "success"
     /\ toolResp.tool # NoTool)
        => toolResp.tool.id = toolResp.id

\* C32: an info request that supplies an identifier, 0 included, sends
\* TOOL_INFO ID=<id> and returns a record with that id or HTTP 404, never
\* the current tool's record under another id.
C32_SuppliedIdIsByIdQuery ==
    (toolResp.op = "info" /\ toolResp.given)
        => /\ toolResp.cmd = [name |-> "TOOL_INFO", id |-> toolResp.id,
                              params |-> [id |-> toolResp.id]]
           /\ toolResp.outcome = "success"
                 => toolResp.tool.id = toolResp.id

ManualOps == {"restart", "m30"}

\* C33: the manual re-trigger endpoints can be requested in every state,
\* whatever the listeners have sent and whether an automatic reset has
\* failed; a request calls run_gcode("SDCARD_RESET_FILE") at most once,
\* returns result 'ok' and not an exception, and its message says the file
\* position was reset only when the command was sent to a reachable
\* interpreter and did not fail.
C33_ManualEndpointAlwaysAnswers ==
    /\ [](ENABLED M2_handle_restart_endpoint
            /\ ENABLED M30_handle_m30_endpoint)
    /\ [](toolResp.op \in ManualOps
            => /\ toolResp.outcome = "ok"
               /\ toolResp.cmd.name = "SDCARD_RESET_FILE"
               /\ toolResp.calls <= 1
               /\ toolResp.message = "file position reset"
                     => toolResp.calls = 1 /\ ~toolResp.failed)
    /\ [][(toolResp' # toolResp /\ toolResp'.op \in ManualOps
              /\ toolResp'.message = "file position reset")
            => klippyUp]_vars

\* an automatic reset has failed, resets have been issued for the run, and a
\* manual request made afterwards has reset the file position
C33_ManualResetAfterFailedReset ==
    /\ \E g \in Gens : resetFailed[g] /\ TotalIssued(g) > 0
    /\ pending = 0
    /\ toolResp.op = "restart"
    /\ toolResp.outcome = "ok"
    /\ toolResp.message = "file position reset"

=============================================================================
